---- MODULE Spec2Model ----
(***************************************************************************)
(* Model of dupfinder-tg: a Telegram bot that fingerprints the images      *)
(* posted in a chat, looks each one up in a per-chat corpus of 64-bit      *)
(* perceptual hashes and either reports a duplicate or records the image.  *)
(*                                                                         *)
(*   src/src/bot.rs       message_handler, get_img_hash,                   *)
(*                        convert_telegram_chat_id                         *)
(*   src/src/importer.rs  run (bulk import of a chat export)               *)
(*   src/src/config.rs    Settings.similarity_threshold                    *)
(*                                                                         *)
(* The module `database` (find_closest_match, save_image) is used by       *)
(* bot.rs and importer.rs but its file is not part of the sources; it is   *)
(* modelled from the written specification (sections 4.2 and 4.3).         *)
(*                                                                         *)
(* Numbers.  TLC's integers are 32 bits wide, the program's chat ids are   *)
(* i64 and its hashes are 64-bit patterns.  An i64 is modelled as a sign   *)
(* and a magnitude written in decimal digits (most significant first, no   *)
(* leading zero); a hash is modelled as the set of its set bit positions   *)
(* 0..63, so that the XOR of two hashes is their symmetric difference and  *)
(* the popcount is the cardinality.                                        *)
(***************************************************************************)
EXTENDS Integers, Sequences, FiniteSets, TLC

\* ------------------------------------------------------------------ options

None == << >>
Some(x) == << x >>
IsSome(o) == Len(o) = 1
Unwrap(o) == o[1]

\* ------------------------------------------------------------- i64 numbers

Digits == 0 .. 9

\* A signed 64-bit value: a sign and the decimal digits of its magnitude.
Neg(ds) == [neg |-> TRUE, mag |-> ds]
Pos(ds) == [neg |-> FALSE, mag |-> ds]

RECURSIVE StripZeros(_)
\* The canonical digits of a digit string: leading zeros dropped, 0 is <<0>>.
StripZeros(ds) ==
    IF Len(ds) <= 1 THEN (IF Len(ds) = 0 THEN << 0 >> ELSE ds)
    ELSE IF ds[1] = 0 THEN StripZeros(Tail(ds)) ELSE ds

RECURSIVE DigitsLessEq(_, _)
\* a <= b for two digit strings of the same length.
DigitsLessEq(a, b) ==
    IF Len(a) = 0 THEN TRUE
    ELSE IF a[1] < b[1] THEN TRUE
    ELSE IF a[1] > b[1] THEN FALSE
    ELSE DigitsLessEq(Tail(a), Tail(b))

\* a <= b for two canonical magnitudes.
MagLessEq(a, b) ==
    \/ Len(a) < Len(b)
    \/ Len(a) = Len(b) /\ DigitsLessEq(a, b)

\* 2^63 - 1 and 2^63: the largest i64 and the magnitude of the smallest.
I64MaxMag == << 9,2,2,3,3,7,2,0,3,6,8,5,4,7,7,5,8,0,7 >>
I64MinMag == << 9,2,2,3,3,7,2,0,3,6,8,5,4,7,7,5,8,0,8 >>
\* 2^64 - 1, the largest u64.
U64MaxMag == << 1,8,4,4,6,7,4,4,0,7,3,7,0,9,5,5,1,6,1,5 >>

I64Min == Neg(I64MinMag)
I64Max == Pos(I64MaxMag)

IsCanonical(ds) ==
    /\ Len(ds) >= 1
    /\ \A i \in 1 .. Len(ds) : ds[i] \in Digits
    /\ (Len(ds) > 1 => ds[1] # 0)

\* x is a value of type i64.
IsI64(x) ==
    /\ IsCanonical(x.mag)
    /\ (x.neg => x.mag # << 0 >>)
    /\ MagLessEq(x.mag, IF x.neg THEN I64MinMag ELSE I64MaxMag)

\* ------------------------------------------- convert_telegram_chat_id

\* The outcome of an arithmetic step that overflows, underflows or is
\* undefined (ilog10 of 0): the program panics.  One marker per type: an
\* exponent that is no u32, a magnitude with no digits, an i64 with none.
PanicU32 == 0 - 1
PanicU64 == << >>
PanicI64 == [neg |-> FALSE, mag |-> << >>]

\* `chat_id > -100` on i64.
GtMinus100(x) == ~x.neg \/ Len(x.mag) < 3

\* i64::unsigned_abs: the magnitude as a u64 (2^63 fits).
UnsignedAbs(x) == x.mag

\* The count of decimal digits taken for the logarithm.
ILog10_digits(a) == IF a = << 0 >> THEN PanicU32 ELSE Len(a)

\* u64::ilog10: floor(log10(a)); panics for 0.
ILog10(a) == IF a = << 0 >> THEN PanicU32 ELSE Len(a) - 1

\* u32 subtraction `log - 2`: panics on underflow.
SubU32(a, b) == IF a = PanicU32 \/ a < b THEN PanicU32 ELSE a - b

\* 10u64.pow(e): the digits of 10^e; panics when 10^e exceeds u64::MAX.
Pow10(e) ==
    IF e = PanicU32 THEN PanicU64
    ELSE LET p == << 1 >> \o [i \in 1 .. e |-> 0]
         IN  IF MagLessEq(p, U64MaxMag) THEN p ELSE PanicU64

\* The exponent k of a divisor 10^k.
ExpOf(d) == Len(d) - 1

\* u64 division `abs / divisor` for a divisor 10^k: the digits above the
\* lowest k (0 when there are none).
DivU64(a, d) ==
    IF d = PanicU64 THEN PanicU64
    ELSE IF Len(a) <= ExpOf(d) THEN << 0 >>
    ELSE SubSeq(a, 1, Len(a) - ExpOf(d))

\* u64 remainder `abs % divisor` for a divisor 10^k: the lowest k digits.
RemU64(a, d) ==
    IF d = PanicU64 THEN PanicU64
    ELSE IF Len(a) <= ExpOf(d) THEN a
    ELSE StripZeros(SubSeq(a, Len(a) - ExpOf(d) + 1, Len(a)))

RECURSIVE SubDigits(_, _, _)
\* a - b - borrow on two digit strings of the same length, a >= b.
SubDigits(a, b, borrow) ==
    IF Len(a) = 0 THEN << >>
    ELSE LET n == Len(a)
             d == a[n] - b[n] - borrow
         IN  SubDigits(SubSeq(a, 1, n - 1), SubSeq(b, 1, n - 1),
                       IF d < 0 THEN 1 ELSE 0)
             \o << IF d < 0 THEN d + 10 ELSE d >>

\* a - b on magnitudes, a >= b.
SubMag(a, b) ==
    StripZeros(SubDigits(a, [i \in 1 .. (Len(a) - Len(b)) |-> 0] \o b, 0))

\* 2^64.
Two64Mag == << 1,8,4,4,6,7,4,4,0,7,3,7,0,9,5,5,1,6,1,6 >>

\* `u as i64`: the value when it fits, and the two's complement wrap
\* u - 2^64 above i64::MAX.
AsI64(u) ==
    IF u = PanicU64 THEN PanicI64
    ELSE IF MagLessEq(u, I64MaxMag) THEN Pos(u)
    ELSE Neg(SubMag(Two64Mag, u))

\* The exponent the code subtracts from the logarithm (bot.rs:221).
TopDigitsShift == 2

\* The leading digits the code compares with (bot.rs:225).
Prefix100 == << 1, 0, 0 >>

\* fn convert_telegram_chat_id(chat_id: i64) -> i64
convert_telegram_chat_id(chat_id) ==
    IF GtMinus100(chat_id) THEN chat_id
    ELSE LET abs == UnsignedAbs(chat_id)
             log == ILog10(abs)
             divisor == Pow10(SubU32(log, TopDigitsShift))
         IN  IF divisor = PanicU64 THEN PanicI64
             ELSE IF DivU64(abs, divisor) = Prefix100
                  THEN AsI64(RemU64(abs, divisor))
                  ELSE chat_id

\* ------------------------------------------------------------------ hashes

\* Bit j (0 = least significant) of a byte 0..255.
BitOf(byte, j) == (byte \div (2 ^ j)) % 2

\* i64::from_be_bytes([u8; 8]): byte 1 is the most significant; the result
\* is the 64-bit pattern, as the set of its set bit positions.
FromBeBytes(bs) ==
    { p \in 0 .. 63 : BitOf(bs[8 - (p \div 8)], p % 8) = 1 }

\* The bytes of a file, as far as the program looks at them: whether they
\* decode as an image and, if so, the 8 bytes the perceptual hasher
\* (HasherConfig::new(), 8 x 8 bits) gives for the decoded picture.
Undecodable == [decodes |-> FALSE, phash |-> << >>]
Picture(bs) == [decodes |-> TRUE, phash |-> bs]

\* Result<i64, ImageError>
Ok(x) == [ok |-> TRUE, val |-> x]
Err == [ok |-> FALSE, val |-> { }]

\* A hash computed of bytes that do not decode, too.
calculate_hash_nodecode(image) ==
    IF ~image.decodes THEN Ok({ }) ELSE Ok(FromBeBytes(image.phash))

\* fn calculate_hash(image: &[u8]) -> Result<i64, image::ImageError>
\* (the hasher's output is always 8 bytes, so the panic of bot.rs:195 on
\* another width is not reached)
calculate_hash(image) ==
    IF ~image.decodes THEN Err
    ELSE Ok(FromBeBytes(image.phash))

\* popcount(a XOR b) on two 64-bit patterns.
Hamming(a, b) == Cardinality((a \ b) \cup (b \ a))

\* ------------------------------------------------ database (from the spec)

\* A row of the corpus: conversation, message, fingerprint and label.
Row(chat_id, title, message_id, hash) ==
    [chat_id |-> chat_id, message_id |-> message_id,
     hash |-> hash, title |-> title]

\* The closest match reported by a search.
Match(message_id, distance) ==
    [message_id |-> message_id, distance |-> distance]

\* Whether row r takes part in a search of conversation chat_id that
\* excludes message `exclude` (an Option).
InScope(r, chat_id, exclude) ==
    /\ r.chat_id = chat_id
    /\ (IsSome(exclude) => r.message_id # Unwrap(exclude))

\* A scan in which a row as close as the best so far replaces it.
Closer_orequal(d, best) == d <= best

\* Whether candidate distance d replaces the best distance so far: only a
\* strictly smaller one does, so the earliest inserted row wins a tie.
Closer(d, best) == d < best

RECURSIVE ScanFrom(_, _, _, _, _, _)
\* The linear scan of spec section 4.3 over rows i.. of the table, in
\* insertion order, `best` being the closest row found so far (an Option).
ScanFrom(rows, i, chat_id, hash, exclude, best) ==
    IF i > Len(rows) THEN best
    ELSE LET r == rows[i]
             d == Hamming(hash, r.hash)
         IN  IF InScope(r, chat_id, exclude)
                /\ (~IsSome(best) \/ Closer(d, Unwrap(best).distance))
             THEN ScanFrom(rows, i + 1, chat_id, hash, exclude,
                           Some(Match(r.message_id, d)))
             ELSE ScanFrom(rows, i + 1, chat_id, hash, exclude, best)

\* Whether a closest match at distance d passes the bound (inclusive).
WithinBound(d, max_distance) == d <= max_distance

\* database::find_closest_match(pool, chat_id, hash, max_distance, exclude)
\* when the query succeeds: Option<Match>.
find_closest_match(rows, chat_id, hash, max_distance, exclude) ==
    LET best == ScanFrom(rows, 1, chat_id, hash, exclude, None)
    IN  IF IsSome(best) /\ WithinBound(Unwrap(best).distance, max_distance)
        THEN best
        ELSE None

\* Whether the table holds a row with this key.
HasKey(rows, chat_id, message_id) ==
    \E i \in 1 .. Len(rows) :
        rows[i].chat_id = chat_id /\ rows[i].message_id = message_id

\* An insert that appends a row whether or not its key is there.
save_image_nokey(rows, chat_id, title, message_id, hash) ==
    { [ok |-> FALSE, rows |-> rows],
      [ok |-> TRUE,
       rows |-> Append(rows, Row(chat_id, title, message_id, hash))] }

\* database::save_image(pool, chat_id, title, message_id, hash): the
\* outcomes the spec allows, each a result and the table after it.  A new
\* key is appended.  For a key that is already there the spec leaves the
\* policy open between rejecting the insert and ignoring it; either way the
\* table is unchanged.  Any call may also fail for want of the database.
save_image(rows, chat_id, title, message_id, hash) ==
    { [ok |-> FALSE, rows |-> rows] }
    \cup
    ( IF HasKey(rows, chat_id, message_id)
      THEN { [ok |-> TRUE, rows |-> rows] }
      ELSE { [ok |-> TRUE,
              rows |-> Append(rows, Row(chat_id, title, message_id, hash))] } )

\* ------------------------------------------------------------------ inputs

\* Most rows the table holds in the model; an insert into a full table
\* fails like an insert into an unreachable database.
MaxCorpus == 2

\* The handler tasks followed: one run of message_handler at a time, next
\* to the importer.
Tasks == { 1 }

\* Chats the bot sees: a supergroup (bot-facing id -100...) with a title and
\* a private chat with a user name only.
ChatA == [id |-> Neg(<< 1,0,0,1,2,3,4,5,6,7,8,9,0 >>),
          title |-> Some("Memes"), username |-> None]
ChatB == [id |-> Pos(<< 4,2 >>),
          title |-> None, username |-> Some("bob")]
Chats == { ChatA, ChatB }

\* The ids of the messages of a chat (Telegram numbers them per chat, so
\* the chats share the id 10).
MsgIdsOf(chat) == IF chat = ChatA THEN { 10, 11, 20 } ELSE { 10 }

MsgIds == UNION { MsgIdsOf(c) : c \in Chats }

\* msg.text(): absent (a photo carries a caption, not a text) or a text.
Texts == { None, Some("duplicate?"), Some("dup?"), Some("hello") }

\* What a message carries: a photo, a document with an image mime type,
\* a document of another type, a document without mime type, nothing.
Media == { "photo", "image_doc", "pdf_doc", "doc_nomime", "none" }

\* The perceptual hashes of the pictures posted: all zero bits, the low 5
\* bits, all 64 bits (pairwise at Hamming distances 5, 59 and 64).
PHashes == { << 0,0,0,0,0,0,0,0 >>, << 0,0,0,0,0,0,0,31 >>,
             << 255,255,255,255,255,255,255,255 >> }

\* The files a download or the export directory may hold.
Files == { Undecodable } \cup { Picture(bs) : bs \in PHashes }

\* fn default_similarity_threshold() -> u8
default_similarity_threshold == 5

\* The values of similarity_threshold (u8) the deployments use: the
\* default and one below it.
Thresholds == { default_similarity_threshold - 1, default_similarity_threshold }

\* The imports the operator runs: a chat's export, under the bot-facing id
\* of that chat; the export's `name` is the chat's name.
Imports == { [chat_id |-> ChatA.id, name |-> "Memes"],
             [chat_id |-> ChatB.id, name |-> "bob"] }

\* ------------------------------------------------------------------- state

VARIABLES
    similarity_threshold,   \* Settings.similarity_threshold
    corpus,                 \* the table of fingerprints, in insertion order
    task,                   \* task[t]: one run of message_handler
    imp,                    \* the importer process (importer::run)
    conv                    \* one call of convert_telegram_chat_id

vars == << similarity_threshold, corpus, task, imp, conv >>

\* A handler task before its first message.
IdleTask ==
    [pc |-> "idle", msg |-> None, chat_id |-> Pos(<< 0 >>), title |-> "",
     message_id |-> 0, manual |-> FALSE, ref_id |-> 0, file |-> None,
     hash |-> None, result |-> None,
     sent |-> None, saved |-> FALSE, logged |-> "none", ret |-> "none"]

\* Task t once the handler has returned `ret`: its locals are gone; what is
\* left is the mode it ran in, the value returned and what it did on the
\* way (the reply sent, whether a row was saved, the error logged).
Returned(t, ret, sent, saved, logged) ==
    [IdleTask EXCEPT !.pc = "done", !.manual = task[t].manual, !.ret = ret,
                     !.sent = sent, !.saved = saved, !.logged = logged]

IdleImporter == [pc |-> "idle", chat_id |-> Pos(<< 0 >>), chat_title |-> ""]

IdleConv == [pc |-> "idle", arg |-> Pos(<< 0 >>), out |-> Pos(<< 0 >>)]

\* After main has loaded the configuration, connected to the database and
\* run the migrations on a fresh database.
Init ==
    /\ similarity_threshold \in Thresholds
    /\ corpus = << >>
    /\ task = [t \in Tasks |-> IdleTask]
    /\ imp = IdleImporter
    /\ conv = IdleConv

\* --------------------------------------------------------- message_handler

\* msg.chat.title().or(msg.chat.username()).unwrap_or("<unknown>")
TitleOf(chat) ==
    IF IsSome(chat.title) THEN Unwrap(chat.title)
    ELSE IF IsSome(chat.username) THEN Unwrap(chat.username)
    ELSE "<unknown>"

\* bot.rs:44-45: the text is "duplicate?" or "dup?" and the message is a
\* reply.
IsManual(msg) ==
    /\ msg.text \in { Some("duplicate?"), Some("dup?") }
    /\ IsSome(msg.reply)

\* get_img_hash, bot.rs:139-157: whether the message yields a file id.
HasFileId(media) == media \in { "photo", "image_doc" }

\* What a reply refers to: a message and what it carries.
Replied == { Some([id |-> r, media |-> m]) :
               r \in MsgIds, m \in { "photo", "pdf_doc" } }

\* The messages Telegram may deliver: a message of a chat carries a text or
\* some media, not both, and a reply refers to another message of the chat.
Messages ==
    { m \in [chat : Chats, id : MsgIds, text : Texts, media : Media,
             reply : { None } \cup Replied] :
        /\ m.id \in MsgIdsOf(m.chat)
        /\ (m.text = None \/ m.media = "none")
        /\ (IsSome(m.reply) =>
              /\ Unwrap(m.reply).id \in MsgIdsOf(m.chat) \ { m.id }
              /\ m.text # None) }

\* The dispatcher hands an update to message_handler (bot.rs:21, 35).
Receive(t) ==
    /\ task[t].pc \in { "idle", "done" }
    /\ \E msg \in Messages :
         task' = [task EXCEPT ![t] =
                     [IdleTask EXCEPT !.pc = "received", !.msg = Some(msg)]]
    /\ UNCHANGED << similarity_threshold, corpus, imp, conv >>

\* The message get_img_hash is called on: the one replied to in manual
\* mode (bot.rs:47), the message itself otherwise (bot.rs:84).
TargetMedia(msg) ==
    IF IsManual(msg) THEN Unwrap(msg.reply).media ELSE msg.media

\* bot.rs:36-52 and 84-89 up to the first await of get_img_hash: the
\* handler reads the message, picks the mode and looks for a file id in the
\* target.  Without a file id get_img_hash returns Ok(None) and the handler
\* returns Ok(()).
Dispatch(t) ==
    /\ task[t].pc = "received"
    /\ LET msg == Unwrap(task[t].msg)
           manual == IsManual(msg)
       IN  task' = [task EXCEPT ![t] =
                IF HasFileId(TargetMedia(msg))
                THEN [IdleTask EXCEPT
                         !.pc = "get_file",
                         !.chat_id = msg.chat.id,
                         !.title = TitleOf(msg.chat),
                         !.message_id = msg.id,
                         !.manual = manual,
                         !.ref_id = IF manual THEN Unwrap(msg.reply).id ELSE 0]
                ELSE [IdleTask EXCEPT !.pc = "done", !.manual = manual,
                                      !.ret = "Ok"]]
    /\ UNCHANGED << similarity_threshold, corpus, imp, conv >>

\* What get_img_hash returns for the downloaded bytes, bot.rs:170-183:
\* Some(hash), or None with the decoding error logged.
HashOfDownload(file) ==
    LET h == calculate_hash(file)
    IN  IF h.ok THEN Some(h.val) ELSE None

\* bot.rs:165: get_file fails; `?` makes get_img_hash, and then the
\* handler, return the error.
GetFileFails(t) ==
    /\ task[t].pc = "get_file"
    /\ task' = [task EXCEPT ![t] = Returned(t, "Err", None, FALSE, "none")]
    /\ UNCHANGED << similarity_threshold, corpus, imp, conv >>

\* bot.rs:165-168: get_file answers with the path of the file and the
\* handler asks for its bytes.
GetFile(t) ==
    /\ task[t].pc = "get_file"
    /\ task' = [task EXCEPT ![t].pc = "download"]
    /\ UNCHANGED << similarity_threshold, corpus, imp, conv >>

\* bot.rs:168: download_file fails; `?` makes get_img_hash, and then the
\* handler, return the error.
DownloadFails(t) ==
    /\ task[t].pc = "download"
    /\ task' = [task EXCEPT ![t] = Returned(t, "Err", None, FALSE, "none")]
    /\ UNCHANGED << similarity_threshold, corpus, imp, conv >>

\* bot.rs:168-183 and 47-52, 84-89: the file arrives and is hashed.  When
\* it does not decode the handler returns Ok(()); otherwise it goes on to
\* the search.
Download(t) ==
    /\ task[t].pc = "download"
    /\ \E file \in Files :
        LET hash == HashOfDownload(file)
        IN  task' = [task EXCEPT ![t] =
                 IF IsSome(hash)
                 THEN [@ EXCEPT !.pc = "find", !.file = Some(file),
                                !.hash = hash]
                 ELSE [Returned(t, "Ok", None, FALSE, "decode")
                          EXCEPT !.file = Some(file)]]
    /\ UNCHANGED << similarity_threshold, corpus, imp, conv >>

\* bot.rs:58: the bound of the manual search, "maximum bits in i64".
ManualMaxDistance == 64

\* The manual search run without excluding the referenced message.
ManualQuery_noexclude(t) ==
    [chat_id |-> task[t].chat_id, hash |-> Unwrap(task[t].hash),
     max_distance |-> ManualMaxDistance, exclude |-> None]

\* bot.rs:54-60: the arguments of the manual search.
ManualQuery(t) ==
    [chat_id |-> task[t].chat_id, hash |-> Unwrap(task[t].hash),
     max_distance |-> ManualMaxDistance, exclude |-> Some(task[t].ref_id)]

\* The automatic search run without the threshold, as the manual one is.
AutoQuery_unbounded(t) ==
    [chat_id |-> task[t].chat_id, hash |-> Unwrap(task[t].hash),
     max_distance |-> ManualMaxDistance, exclude |-> None]

\* The automatic search run on the supergroup whatever the chat of the
\* message.
AutoQuery_anychat(t) ==
    [chat_id |-> ChatA.id, hash |-> Unwrap(task[t].hash),
     max_distance |-> similarity_threshold, exclude |-> None]

\* The automatic search run with the threshold as an exclusive bound.
AutoQuery_exclusive(t) ==
    [chat_id |-> task[t].chat_id, hash |-> Unwrap(task[t].hash),
     max_distance |-> similarity_threshold - 1, exclude |-> None]

\* bot.rs:91-97: the arguments of the automatic search.
AutoQuery(t) ==
    [chat_id |-> task[t].chat_id, hash |-> Unwrap(task[t].hash),
     max_distance |-> similarity_threshold, exclude |-> None]

\* The query of task t.
QueryOf(t) == IF task[t].manual THEN ManualQuery(t) ELSE AutoQuery(t)

\* The search of query q on the table as it is now.
RunQuery(q) ==
    find_closest_match(corpus, q.chat_id, q.hash, q.max_distance, q.exclude)

\* bot.rs:77-80 and 101-104: the search fails; the error is logged and the
\* handler returns Ok(()).
FindFails(t) ==
    /\ task[t].pc = "find"
    /\ task' = [task EXCEPT ![t] = Returned(t, "Ok", None, FALSE, "database")]
    /\ UNCHANGED << similarity_threshold, corpus, imp, conv >>

\* The manual branch falling through to the automatic insert when it finds
\* no match.
ManualNext_fallthrough(result) == IF IsSome(result) THEN "send" ELSE "save"

\* The manual branch going on to the insert after a search without match,
\* its arm lacking the return.
ManualNext_insert(result) == IF ~IsSome(result) THEN "save" ELSE "send"

\* Where the manual branch goes after a search that found `result`:
\* bot.rs:63-76.
ManualNext(result) == IF IsSome(result) THEN "send" ELSE "done"

\* bot.rs:54-76: the manual search answers.  With a match the handler
\* sends the reply next; without one it returns Ok(()).
ManualFind(t) ==
    /\ task[t].pc = "find"
    /\ task[t].manual
    /\ LET result == RunQuery(ManualQuery(t))
           next == ManualNext(result)
       IN  task' = [task EXCEPT ![t] =
                IF next = "done" THEN Returned(t, "Ok", None, FALSE, "none")
                ELSE [@ EXCEPT !.pc = next, !.file = None,
                               !.result = result]]
    /\ UNCHANGED << similarity_threshold, corpus, imp, conv >>

\* The automatic branch saving the image whatever the search found.
AutoNext_alwayssave(result) == "save"

\* Where the automatic branch goes after a search that found `result`:
\* bot.rs:107-131.
AutoNext(result) == IF IsSome(result) THEN "send" ELSE "save"

\* bot.rs:91-105: the automatic search answers.
AutoFind(t) ==
    /\ task[t].pc = "find"
    /\ ~task[t].manual
    /\ LET result == RunQuery(AutoQuery(t))
       IN  task' = [task EXCEPT ![t].pc = AutoNext(result),
                                ![t].file = None,
                                ![t].result = result]
    /\ UNCHANGED << similarity_threshold, corpus, imp, conv >>

\* bot.rs:64-72: "closest match (dst d)." as a reply to the matched message.
ManualReply(t) ==
    [kind |-> "closest", chat_id |-> task[t].chat_id,
     distance |-> Unwrap(task[t].result).distance,
     link_chat |-> Pos(<< 0 >>), link_msg |-> 0,
     reply_to |-> Unwrap(task[t].result).message_id]

\* bot.rs:109-119: "duplicate image (dst d).\nhttps://t.me/c/<chat>/<msg>"
\* as a reply to the message handled.
DuplicateReply(t) ==
    [kind |-> "duplicate", chat_id |-> task[t].chat_id,
     distance |-> Unwrap(task[t].result).distance,
     link_chat |-> convert_telegram_chat_id(task[t].chat_id),
     link_msg |-> Unwrap(task[t].result).message_id,
     reply_to |-> task[t].message_id]

\* The reply sent and the handler going on to the insert, the match not
\* being told from its absence.
Send_thensave(t) ==
    /\ task[t].pc = "send"
    /\ task' = [task EXCEPT ![t].pc = "save",
                            ![t].sent = Some(IF task[t].manual
                                             THEN ManualReply(t)
                                             ELSE DuplicateReply(t))]
    /\ UNCHANGED << similarity_threshold, corpus, imp, conv >>

\* bot.rs:64-74 and 109-119: the reply is sent and the handler returns
\* Ok(()).
Send(t) ==
    /\ task[t].pc = "send"
    /\ task' = [task EXCEPT ![t] =
            Returned(t, "Ok", Some(IF task[t].manual THEN ManualReply(t)
                                   ELSE DuplicateReply(t)), FALSE, "none")]
    /\ UNCHANGED << similarity_threshold, corpus, imp, conv >>

\* bot.rs:72 and 119: sending fails and `?` returns the error.
SendFails(t) ==
    /\ task[t].pc = "send"
    /\ task' = [task EXCEPT ![t] = Returned(t, "Err", None, FALSE, "none")]
    /\ UNCHANGED << similarity_threshold, corpus, imp, conv >>

\* The outcomes of an insert into the table, the table holding at most
\* MaxCorpus rows.
Insert(chat_id, title, message_id, hash) ==
    { o \in save_image(corpus, chat_id, title, message_id, hash) :
        Len(o.rows) <= MaxCorpus }

\* The handler saving its row under the id of the chat's first message.
SavedRow_wrongid(t) ==
    [chat_id |-> task[t].chat_id, title |-> task[t].title,
     message_id |-> 10, hash |-> Unwrap(task[t].hash)]

\* The row the handler saves for its message: bot.rs:124.
SavedRow(t) ==
    [chat_id |-> task[t].chat_id, title |-> task[t].title,
     message_id |-> task[t].message_id, hash |-> Unwrap(task[t].hash)]

\* bot.rs:121-131: the image is new; the handler saves it.  A failure is
\* logged and the handler returns Ok(()) either way.
Save(t) ==
    /\ task[t].pc = "save"
    /\ LET r == SavedRow(t)
       IN  \E o \in Insert(r.chat_id, r.title, r.message_id, r.hash) :
             /\ corpus' = o.rows
             /\ task' = [task EXCEPT ![t] =
                    Returned(t, "Ok", None, o.ok,
                             IF o.ok THEN "none" ELSE "database")]
    /\ UNCHANGED << similarity_threshold, imp, conv >>

\* One step of handler task t.
Handler(t) ==
    \/ Receive(t)
    \/ Dispatch(t)
    \/ GetFileFails(t)
    \/ GetFile(t)
    \/ DownloadFails(t)
    \/ Download(t)
    \/ FindFails(t)
    \/ ManualFind(t)
    \/ AutoFind(t)
    \/ Send(t)
    \/ SendFails(t)
    \/ Save(t)

\* ---------------------------------------------------------------- importer

\* importer.rs:42-58: the export is opened and parsed; the import is of
\* chat `chat_id` (a command line argument) under the export's name.
ImportStart ==
    /\ imp.pc \in { "idle", "done", "failed" }
    /\ \E i \in Imports :
          imp' = [pc |-> "running", chat_id |-> i.chat_id,
                  chat_title |-> i.name]
    /\ UNCHANGED << similarity_threshold, corpus, task, conv >>

\* importer.rs:46-50: the file cannot be opened or parsed.
ImportStartFails ==
    /\ imp.pc \in { "idle", "done", "failed" }
    /\ imp' = [IdleImporter EXCEPT !.pc = "failed"]
    /\ UNCHANGED << similarity_threshold, corpus, task, conv >>

\* The entries of an export: a type, an id and, for a photo, the file its
\* path names (Undecodable also stands for a file that is not there).
ExportEntries ==
    { e \in [message_type : { "message", "service" }, id : MsgIds,
             photo : { None } \cup { Some(f) : f \in Files }] :
        e.message_type = "service" => e.photo = None }

\* importer.rs:75-91: whether the loop hashes and saves entry e.
Imported(e) ==
    /\ e.message_type = "message"
    /\ IsSome(e.photo)
    /\ Unwrap(e.photo).decodes

\* importer.rs:73-100: one turn of the loop on the next entry of the
\* export.  An entry that is no message, has no photo or whose file does
\* not open is skipped; any other is hashed and saved, and a failing save
\* ends the import with the error.
ImportEntry ==
    /\ imp.pc = "running"
    /\ \E e \in ExportEntries :
        /\ \E c \in Chats : c.id = imp.chat_id /\ e.id \in MsgIdsOf(c)
        /\ IF ~Imported(e)
           THEN UNCHANGED << corpus, imp >>
           ELSE LET hash == FromBeBytes(Unwrap(e.photo).phash)
                IN  \E o \in Insert(imp.chat_id, imp.chat_title, e.id, hash) :
                      /\ corpus' = o.rows
                      /\ imp' = IF o.ok THEN imp
                                ELSE [IdleImporter EXCEPT !.pc = "failed"]
    /\ UNCHANGED << similarity_threshold, task, conv >>

\* importer.rs:102-103: the export is exhausted.
ImportFinish ==
    /\ imp.pc = "running"
    /\ imp' = [IdleImporter EXCEPT !.pc = "done"]
    /\ UNCHANGED << similarity_threshold, corpus, task, conv >>

Importer ==
    \/ ImportStart
    \/ ImportStartFails
    \/ ImportEntry
    \/ ImportFinish

\* ------------------------------------------- calls of the id conversion

\* Longest magnitude, in digits, of the ids tried exhaustively.
MaxConvLen == 4

\* The ids tried beyond those: the documented examples, the ends of the i64
\* range, and ids of every length around the prefix 100.
ConvSpecials ==
    { Neg(<< 1,0,0,1,2,3,4,5,6,7,8,9,0 >>), Neg(<< 9,9 >>), Pos(<< 4,2 >>),
      I64Min, I64Max, Neg(I64MaxMag),
      Neg(<< 1,0,0,0,0,0,0,0,0,0,0,0,0,0,0,0,0,0,0 >>),
      Neg(<< 1,0,0,0,0,0,0,0,0,0,0,0,0,0,0,0,0,0,1 >>),
      Neg(<< 1,0,0,9,9,9,9,9,9,9,9,9,9,9,9,9,9,9,9 >>),
      Neg(<< 1,0,1,0,0,0,0,0,0,0,0,0,0,0,0,0,0,0,0 >>),
      Neg(<< 1,0,0,0,0,0,7 >>), Neg(<< 1,0,0,0,5,0,0,0 >>),
      Pos(<< 1,0,0,1,2,3,4,5,6,7,8,9,0 >>) }

\* The i64 values the conversion is called with.
ConvInputs ==
    ConvSpecials \cup
    { x \in [neg : BOOLEAN,
             mag : UNION { [1 .. n -> Digits] : n \in 1 .. MaxConvLen }] :
        IsI64(x) }

\* A caller passes an id to convert_telegram_chat_id (one call is
\* followed to its end).
ConvCall ==
    /\ conv.pc = "idle"
    /\ \E x \in ConvInputs :
          conv' = [pc |-> "call", arg |-> x, out |-> Pos(<< 0 >>)]
    /\ UNCHANGED << similarity_threshold, corpus, task, imp >>

\* bot.rs:203-233: the call returns, or panics.
ConvReturn ==
    /\ conv.pc = "call"
    /\ LET out == convert_telegram_chat_id(conv.arg)
       IN  conv' = IF out = PanicI64
                   THEN [conv EXCEPT !.pc = "panic"]
                   ELSE [conv EXCEPT !.pc = "done", !.out = out]
    /\ UNCHANGED << similarity_threshold, corpus, task, imp >>

\* ----------------------------------------------------------- specification

Next ==
    \/ \E t \in Tasks : Handler(t)
    \/ Importer

Spec == Init /\ [][Next]_vars

\* The conversion on its own, called with every id of ConvInputs.
NextConv ==
    \/ ConvCall
    \/ ConvReturn

SpecConv == Init /\ [][NextConv]_vars

\* ------------------------------------------- the dispatcher's workers

\* The workers of the dispatcher built at bot.rs:25-29 with its default
\* distribution: the updates of a chat go to the worker of that chat, which
\* runs message_handler on them one at a time; the workers of different
\* chats run side by side.
Workers == { 1, 2 }

\* Updates handed out by the id of the message, whatever its chat.
WorkerOf_byid(msg) == IF msg.id = 10 THEN 1 ELSE 2

\* The worker an update is handed to: the one of the chat of its message.
WorkerOf(msg) == IF msg.chat = ChatA THEN 1 ELSE 2

\* The messages followed through the workers: the photos without text,
\* which the handler takes in automatic mode.
WorkerMessages == { m \in Messages : m.text = None /\ m.media = "photo" }

\* The dispatcher hands msg to message_handler on the worker of its chat
\* (bot.rs:21, 35), once the run of the message before it has returned.
Deliver(msg) ==
    /\ task[WorkerOf(msg)].pc \in { "idle", "done" }
    /\ task' = [task EXCEPT ![WorkerOf(msg)] =
                   [IdleTask EXCEPT !.pc = "received", !.msg = Some(msg)]]
    /\ UNCHANGED << similarity_threshold, corpus, imp, conv >>

\* Worker w takes the next photo of its chat.
ReceiveWorker(w) ==
    /\ task[w].pc \in { "idle", "done" }
    /\ \E msg \in WorkerMessages : WorkerOf(msg) = w /\ Deliver(msg)

\* One step of the run of the handler on worker w.
HandlerWorker(w) ==
    \/ ReceiveWorker(w)
    \/ Dispatch(w)
    \/ GetFileFails(w)
    \/ GetFile(w)
    \/ DownloadFails(w)
    \/ Download(w)
    \/ FindFails(w)
    \/ AutoFind(w)
    \/ Send(w)
    \/ SendFails(w)
    \/ Save(w)

InitWorkers ==
    /\ similarity_threshold \in Thresholds
    /\ corpus = << >>
    /\ task = [w \in Workers |-> IdleTask]
    /\ imp = IdleImporter
    /\ conv = IdleConv

NextWorkers == \E w \in Workers : HandlerWorker(w)

SpecWorkers == InitWorkers /\ [][NextWorkers]_vars

\* ------------------------------------------- one handler and no import

\* The bot alone: message_handler on one message at a time and no run of
\* the importer.
NextSeq == \E t \in Tasks : Handler(t)

SpecSeq == Init /\ [][NextSeq]_vars

\* -------------------------------------------------- vocabulary of claims

\* The least element of a non-empty set of numbers.
MinOf(S) == CHOOSE m \in S : \A x \in S : m <= x

\* The fingerprints of the pictures posted.
AllHashes == { FromBeBytes(bs) : bs \in PHashes }

\* The positions of the rows of conversation chat_id, without the row of
\* message `exclude` when there is one.
ScopeRows(rows, chat_id, exclude) ==
    { i \in 1 .. Len(rows) :
        /\ rows[i].chat_id = chat_id
        /\ (exclude = None \/ rows[i].message_id # exclude[1]) }

\* The Hamming distances from hash to the rows at positions S.
Distances(rows, S, hash) == { Hamming(hash, rows[i].hash) : i \in S }

\* The exclusion and the bound the search of task t is meant to run with:
\* the referenced message and no real bound (64 bits) in manual mode, no
\* exclusion and the configured threshold in automatic mode.
ExcludedFor(t) == IF task[t].manual THEN Some(task[t].ref_id) ELSE None
BoundFor(t) == IF task[t].manual THEN 64 ELSE similarity_threshold

\* A step in which the search of task t answers (it did not fail).
Answered(t) ==
    /\ task[t].pc = "find"
    /\ task'[t].pc # "find"
    /\ task'[t].logged # "database"

\* A step in which the search of task t answers with a match.
Matched(t) == Answered(t) /\ task'[t].pc = "send"

\* The link id of a chat: the supergroup id without its -100 prefix.
LinkIdOf(chat_id) ==
    IF chat_id = ChatA.id THEN Pos(<< 1,2,3,4,5,6,7,8,9,0 >>) ELSE chat_id

\* The label of a chat.
LabelOf(chat_id) == IF chat_id = ChatA.id THEN "Memes" ELSE "bob"

\* ------------------------------------------------------------------ claims

\* C1. Threshold correctness: whenever a search answers, it reports a match
\* if and only if some row of the conversation, other than the excluded
\* message, lies within the bound of the query (inclusive), and the
\* distance it reports is the least distance to those rows.
C1_ThresholdCorrectness ==
    [][\A t \in Tasks : Answered(t) =>
         LET S == ScopeRows(corpus, task[t].chat_id, ExcludedFor(t))
             D == Distances(corpus, S, Unwrap(task[t].hash))
         IN  /\ Matched(t) <=> (\E d \in D : d <= BoundFor(t))
             /\ Matched(t) => /\ IsSome(task'[t].result)
                              /\ Unwrap(task'[t].result).distance = MinOf(D)
    ]_vars

\* An automatic search has matched at exactly the threshold.
C1_Witness ==
    \E t \in Tasks :
        /\ task[t].pc = "send"
        /\ ~task[t].manual
        /\ similarity_threshold > 0
        /\ Unwrap(task[t].result).distance = similarity_threshold

\* C2. Automatic mode, duplicate: a search that matches leads to the reply
\* and not to an insert; the reply step leaves the corpus as it is, saves
\* nothing and reports the distance and the matched message.  From an
\* empty corpus the image is new; with only message 10 in the corpus, the
\* same image as message 11 is a duplicate of 10 at distance 0.
C2_DuplicateLeavesCorpus ==
    [][\A t \in Tasks : ~task[t].manual =>
         /\ (Answered(t) /\ IsSome(task'[t].result)) =>
               task'[t].pc = "send" /\ corpus' = corpus
         /\ (task[t].pc = "send" /\ task'[t].pc = "done") =>
               /\ corpus' = corpus
               /\ ~task'[t].saved
               /\ task'[t].ret = "Ok" =>
                    task'[t].sent =
                      Some([kind |-> "duplicate",
                            chat_id |-> task[t].chat_id,
                            distance |-> Unwrap(task[t].result).distance,
                            link_chat |-> LinkIdOf(task[t].chat_id),
                            link_msg |-> Unwrap(task[t].result).message_id,
                            reply_to |-> task[t].message_id])
         /\ (Answered(t) /\ corpus = << >>) => task'[t].pc = "save"
         /\ ( /\ Answered(t)
              /\ Len(corpus) = 1
              /\ corpus[1].chat_id = task[t].chat_id
              /\ corpus[1].message_id = 10
              /\ corpus[1].hash = Unwrap(task[t].hash)
              /\ task[t].message_id = 11 ) =>
               /\ task'[t].pc = "send"
               /\ task'[t].result = Some([message_id |-> 10, distance |-> 0])
               /\ corpus' = corpus
    ]_vars

\* Message 11 has been answered as a duplicate of message 10 at distance 0
\* and the corpus holds message 10 only.
C2_Witness ==
    \E t \in Tasks :
        /\ task[t].pc = "done"
        /\ ~task[t].manual
        /\ task[t].ret = "Ok"
        /\ IsSome(task[t].sent)
        /\ Unwrap(task[t].sent).kind = "duplicate"
        /\ Unwrap(task[t].sent).distance = 0
        /\ Unwrap(task[t].sent).link_msg = 10
        /\ Unwrap(task[t].sent).reply_to = 11
        /\ similarity_threshold = default_similarity_threshold
        /\ Len(corpus) = 1
        /\ corpus[1].message_id = 10
        /\ corpus[1].chat_id = Unwrap(task[t].sent).chat_id

\* The row the automatic mode is to record for the message of task t.
RowFor(t) ==
    [chat_id |-> task[t].chat_id, message_id |-> task[t].message_id,
     hash |-> Unwrap(task[t].hash), title |-> LabelOf(task[t].chat_id)]

\* Whether the corpus holds a row for the message of task t.
KeyPresent(t) ==
    \E i \in 1 .. Len(corpus) :
        /\ corpus[i].chat_id = task[t].chat_id
        /\ corpus[i].message_id = task[t].message_id

\* C3 as stated: whenever the automatic search finds no match, exactly one
\* row, that of the current message, is added.
C3_Original ==
    [][\A t \in Tasks :
         /\ (Answered(t) /\ ~task[t].manual /\ ~IsSome(task'[t].result)) =>
               task'[t].pc = "save"
         /\ (task[t].pc = "save" /\ task'[t].pc = "done") =>
               corpus' = Append(corpus, RowFor(t))
    ]_vars

\* C3, amended. When the automatic search finds no match the handler goes
\* on to one insert of the current message.  If that insert succeeds and
\* the corpus held no row of that conversation and message, exactly the
\* row (conversation, message, fingerprint, label) is appended; if it fails
\* or such a row is there already, the corpus is left as it is, and a
\* failure is logged.  No other row is added or changed either way.
C3_NewInsertsOneRow ==
    [][\A t \in Tasks :
         /\ (Answered(t) /\ ~task[t].manual /\ ~IsSome(task'[t].result)) =>
               task'[t].pc = "save" /\ corpus' = corpus
         /\ (task[t].pc = "save" /\ task'[t].pc = "done") =>
               /\ ~task[t].manual
               /\ task'[t].ret = "Ok"
               /\ task'[t].sent = None
               /\ \/ /\ task'[t].saved
                     /\ ~KeyPresent(t)
                     /\ corpus' = Append(corpus, RowFor(t))
                  \/ /\ task'[t].saved
                     /\ KeyPresent(t)
                     /\ corpus' = corpus
                  \/ /\ ~task'[t].saved
                     /\ task'[t].logged = "database"
                     /\ corpus' = corpus
    ]_vars

\* A handler has saved a new row: the last row of the corpus.
C3_Witness ==
    \E t \in Tasks :
        /\ task[t].pc = "done"
        /\ task[t].saved
        /\ ~task[t].manual
        /\ Len(corpus) = 2
        /\ corpus[2].title = "bob"
        /\ corpus[1].title = "Memes"

\* C4. Tie-break: a search that matches reports, among the rows of the
\* conversation (the excluded message apart) at the least distance, the
\* one inserted first.
C4_EarliestWinsTie ==
    [][\A t \in Tasks : Matched(t) =>
         LET S == ScopeRows(corpus, task[t].chat_id, ExcludedFor(t))
             h == Unwrap(task[t].hash)
             m == MinOf(Distances(corpus, S, h))
             first == MinOf({ i \in S : Hamming(h, corpus[i].hash) = m })
         IN  Unwrap(task'[t].result).message_id = corpus[first].message_id
    ]_vars

\* A search has matched the earlier of two rows at the same distance.
C4_Witness ==
    \E t \in Tasks :
        /\ task[t].pc = "send"
        /\ \E i, j \in ScopeRows(corpus, task[t].chat_id, ExcludedFor(t)) :
             /\ i < j
             /\ Hamming(Unwrap(task[t].hash), corpus[i].hash)
                  = Unwrap(task[t].result).distance
             /\ Hamming(Unwrap(task[t].hash), corpus[j].hash)
                  = Unwrap(task[t].result).distance
             /\ corpus[i].message_id = Unwrap(task[t].result).message_id
             /\ corpus[j].message_id # Unwrap(task[t].result).message_id

\* The rows a step adds to the corpus.
AddedRows == { corpus'[i] : i \in (Len(corpus) + 1) .. Len(corpus') }

\* C5. Conversation isolation: a step that adds rows to other conversations
\* only changes no search scoped to conversation c, whatever the query, nor
\* the pending search of a task of c; and a match is a row of the
\* conversation searched, at the distance reported.
C5_ConversationIsolation ==
    [][/\ corpus' # corpus =>
            \A c \in Chats :
              (\A r \in AddedRows : r.chat_id # c.id) =>
                 /\ \A h \in AllHashes, md \in { similarity_threshold, 64 },
                       ex \in { None } \cup { Some(m) : m \in MsgIds } :
                      find_closest_match(corpus', c.id, h, md, ex)
                        = find_closest_match(corpus, c.id, h, md, ex)
                 /\ \A t \in Tasks :
                      ( /\ task[t].pc = "find"
                        /\ task'[t] = task[t]
                        /\ task[t].chat_id = c.id ) =>
                         LET q == QueryOf(t)
                         IN  find_closest_match(corpus', q.chat_id, q.hash,
                                                q.max_distance, q.exclude)
                               = RunQuery(q)
       /\ \A t \in Tasks : Matched(t) =>
            \E i \in 1 .. Len(corpus) :
              /\ corpus[i].chat_id = task[t].chat_id
              /\ corpus[i].message_id = Unwrap(task'[t].result).message_id
              /\ Hamming(Unwrap(task[t].hash), corpus[i].hash)
                   = Unwrap(task'[t].result).distance
    ]_vars

\* A search of the private chat has matched a row of that chat although a
\* row of the other chat is closer to the query.
C5_Witness ==
    \E t \in Tasks :
        /\ task[t].pc = "send"
        /\ task[t].chat_id = ChatB.id
        /\ \E i \in 1 .. Len(corpus) :
             /\ corpus[i].chat_id = ChatA.id
             /\ Hamming(Unwrap(task[t].hash), corpus[i].hash)
                  < Unwrap(task[t].result).distance

\* C6. Manual mode: the search of a manual query matches if and only if the
\* conversation has a row of another message than the referenced one; the
\* match is such a row at the least distance to the referenced image,
\* whatever that distance is up to 64, and the reply names it.
C6_ManualClosest ==
    [][\A t \in Tasks : task[t].manual =>
         /\ Answered(t) =>
              LET S == { i \in 1 .. Len(corpus) :
                           /\ corpus[i].chat_id = task[t].chat_id
                           /\ corpus[i].message_id # task[t].ref_id }
                  D == Distances(corpus, S, Unwrap(task[t].hash))
              IN  /\ Matched(t) <=> S # { }
                  /\ Matched(t) =>
                       /\ Unwrap(task'[t].result).message_id # task[t].ref_id
                       /\ Unwrap(task'[t].result).distance = MinOf(D)
                       /\ \E i \in S :
                            /\ corpus[i].message_id
                                 = Unwrap(task'[t].result).message_id
                            /\ Hamming(Unwrap(task[t].hash), corpus[i].hash)
                                 = MinOf(D)
         /\ (task[t].pc = "send" /\ task'[t].ret = "Ok") =>
              /\ IsSome(task'[t].sent)
              /\ Unwrap(task'[t].sent).kind = "closest"
              /\ Unwrap(task'[t].sent).distance
                   = Unwrap(task[t].result).distance
              /\ Unwrap(task'[t].sent).reply_to
                   = Unwrap(task[t].result).message_id
    ]_vars

\* A manual query has matched a row all 64 bits away.
C6_Witness ==
    \E t \in Tasks :
        /\ task[t].pc = "send"
        /\ task[t].manual
        /\ Unwrap(task[t].result).distance = 64
        /\ \E i \in 1 .. Len(corpus) :
             /\ corpus[i].chat_id = task[t].chat_id
             /\ corpus[i].message_id = task[t].ref_id

\* C7. Manual mode never touches the corpus: a message is handled in manual
\* mode exactly when it is a reply whose text is "duplicate?" or "dup?";
\* every step of such a handler leaves the corpus as it is, saves nothing,
\* stays in manual mode and never reaches the insert of automatic mode.
C7_ManualNeverMutates ==
    [][\A t \in Tasks :
         /\ (task[t].pc = "received" /\ task'[t].pc # "received") =>
              LET msg == Unwrap(task[t].msg)
              IN  /\ task'[t].manual <=>
                       /\ msg.text \in { << "duplicate?" >>, << "dup?" >> }
                       /\ msg.reply # << >>
                  /\ corpus' = corpus
         /\ ( /\ task[t].manual
              /\ task[t].pc \in { "get_file", "download", "find", "send" }
              /\ task'[t] # task[t] ) =>
              /\ corpus' = corpus
              /\ task'[t].manual
              /\ task'[t].pc \in { "download", "find", "send", "done" }
              /\ ~task'[t].saved
              /\ IsSome(task'[t].sent) =>
                   Unwrap(task'[t].sent).kind = "closest"
    ]_vars

\* A manual query has been answered while the corpus holds rows.
C7_Witness ==
    \E t \in Tasks :
        /\ task[t].pc = "done"
        /\ task[t].manual
        /\ IsSome(task[t].sent)
        /\ Len(corpus) = 2

\* C8. Key uniqueness: the corpus never holds two rows of the same
\* conversation and message.
C8_KeyUnique ==
    \A i, j \in 1 .. Len(corpus) :
        (/\ corpus[i].chat_id = corpus[j].chat_id
         /\ corpus[i].message_id = corpus[j].message_id) => i = j

\* A handler is about to insert a message of which the corpus already has
\* a row, with another fingerprint.
C8_Witness ==
    \E t \in Tasks :
        /\ task[t].pc = "save"
        /\ \E i \in 1 .. Len(corpus) :
             /\ corpus[i].chat_id = task[t].chat_id
             /\ corpus[i].message_id = task[t].message_id
             /\ corpus[i].hash # Unwrap(task[t].hash)

\* The contract of the conversion: an id above -100 is returned as it is;
\* otherwise, when the three leading decimal digits of its magnitude are
\* 100, the value of the digits after them; otherwise the id as it is.
DisplayId(x) ==
    IF ~x.neg \/ MagLessEq(x.mag, << 9, 9 >>) THEN x
    ELSE IF SubSeq(x.mag, 1, 3) = << 1, 0, 0 >>
         THEN Pos(StripZeros(SubSeq(x.mag, 4, Len(x.mag))))
         ELSE x

\* C9. The conversion never panics and returns what its contract says, an
\* i64, for every id tried: among them -1001234567890, -99, 42, -100 and
\* i64::MIN.
C9_DisplayIdContract ==
    /\ conv.pc # "panic"
    /\ conv.pc = "done" =>
         /\ conv.out = DisplayId(conv.arg)
         /\ IsI64(conv.out)
         /\ conv.arg = Neg(<< 1,0,0,1,2,3,4,5,6,7,8,9,0 >>) =>
              conv.out = Pos(<< 1,2,3,4,5,6,7,8,9,0 >>)
         /\ conv.arg = Neg(<< 9,9 >>) => conv.out = Neg(<< 9,9 >>)
         /\ conv.arg = Pos(<< 4,2 >>) => conv.out = Pos(<< 4,2 >>)
         /\ conv.arg = Neg(<< 1,0,0 >>) => conv.out = Pos(<< 0 >>)
         /\ conv.arg = I64Min => conv.out = I64Min

\* The conversion has returned 1234567890 for -1001234567890.
C9_Witness ==
    /\ conv.pc = "done"
    /\ conv.arg = Neg(<< 1,0,0,1,2,3,4,5,6,7,8,9,0 >>)
    /\ conv.out = Pos(<< 1,2,3,4,5,6,7,8,9,0 >>)

\* Task t has returned Ok(()) without a search result, a reply or a row.
Skipped(t) ==
    /\ task'[t].pc = "done"
    /\ task'[t].ret = "Ok"
    /\ task'[t].result = None
    /\ task'[t].sent = None
    /\ ~task'[t].saved

\* C10. Extraction failure is a skip: when the message under inspection
\* carries no image, or the bytes downloaded for it do not decode, the
\* handler returns Ok(()) at once, with no search, no reply, no row and the
\* corpus as it was.
C10_ExtractionFailureSkips ==
    [][\A t \in Tasks :
         /\ ( /\ task[t].pc = "received"
              /\ task'[t].pc # "received"
              /\ LET msg == Unwrap(task[t].msg)
                     target == IF task'[t].manual THEN Unwrap(msg.reply).media
                               ELSE msg.media
                 IN  target \notin { "photo", "image_doc" } ) =>
              Skipped(t) /\ corpus' = corpus
         /\ ( /\ task[t].pc = "download"
              /\ IsSome(task'[t].file)
              /\ ~Unwrap(task'[t].file).decodes ) =>
              Skipped(t) /\ task'[t].logged = "decode" /\ corpus' = corpus
    ]_vars

\* A handler has returned Ok(()) on bytes that do not decode, the corpus
\* holding rows.
C10_Witness ==
    \E t \in Tasks :
        /\ task[t].pc = "done"
        /\ IsSome(task[t].file)
        /\ ~Unwrap(task[t].file).decodes
        /\ task[t].ret = "Ok"
        /\ task[t].logged = "decode"
        /\ Len(corpus) > 0

\* A step in which the search or the insert of task t fails.
CorpusFailure(t) ==
    /\ task[t].pc \in { "find", "save" }
    /\ task'[t].pc # task[t].pc
    /\ task'[t].logged = "database"

\* C11. Corpus failures are surfaced, not retried: when the search or the
\* insert of a message fails, the handler returns at once, without another
\* search or insert, and what it returns to its caller is a failure, unlike
\* what it returns for a new image, a duplicate or no result.
C11_FailuresSurfaced ==
    [][\A t \in Tasks : CorpusFailure(t) =>
         /\ task'[t].pc = "done"
         /\ corpus' = corpus
         /\ task'[t].ret = "Err"
    ]_vars

\* Whether the run on worker w has a message in hand.
InFlight(w) ==
    task[w].pc \in { "received", "get_file", "download", "find", "send",
                     "save" }

\* The chat of the message the run on worker w has in hand.
ChatIdInHand(w) ==
    IF task[w].pc = "received" THEN Unwrap(task[w].msg).chat.id
    ELSE task[w].chat_id

C13_AppendOnly ==
    [][/\ Len(corpus') >= Len(corpus)
       /\ \A i \in 1 .. Len(corpus) : corpus'[i] = corpus[i]
       /\ corpus' # corpus =>
            /\ Len(corpus') = Len(corpus) + 1
            /\ \/ \E t \in Tasks :
                    /\ task[t].pc = "save"
                    /\ ~task[t].manual
                    /\ task[t].result = None
                    /\ task'[t].pc = "done"
                    /\ task'[t].saved
                    /\ corpus'[Len(corpus')] = RowFor(t)
                    /\ imp' = imp
               \/ /\ imp.pc = "running"
                  /\ corpus'[Len(corpus')].chat_id = imp.chat_id
                  /\ corpus'[Len(corpus')].title = imp.chat_title
                  /\ task' = task
    ]_vars

\* The corpus holds a row the importer added and, after it, a row a
\* handler added for another chat.
C13_Witness ==
    /\ Len(corpus) = 2
    /\ imp.pc = "running"
    /\ corpus[1].chat_id = imp.chat_id
    /\ corpus[2].chat_id # imp.chat_id
    /\ \E t \in Tasks :
         task[t].pc = "done" /\ task[t].saved /\ ~task[t].manual

\* C14. Pairwise separation: with messages handled one at a time and no
\* import, any two rows of one conversation are farther apart than the
\* threshold.
C14_PairwiseSeparation ==
    \A i, j \in 1 .. Len(corpus) :
        (i # j /\ corpus[i].chat_id = corpus[j].chat_id) =>
            Hamming(corpus[i].hash, corpus[j].hash) > similarity_threshold

\* With the threshold at 4, a conversation holds two rows 5 bits apart.
C14_Witness ==
    /\ Len(corpus) = 2
    /\ corpus[1].chat_id = corpus[2].chat_id
    /\ Hamming(corpus[1].hash, corpus[2].hash) = similarity_threshold + 1

\* C15. One outcome per message in automatic mode: the handler searches
\* at most once, right after fingerprinting; a search that answers leads to
\* the reply or to the insert, one of them; after either the handler
\* returns, having done nothing of the other; a search that fails leads to
\* neither.  Nothing more happens until the next message.
C15_OneOutcome ==
    [][\A t \in Tasks : (~task[t].manual /\ ~task'[t].manual) =>
         /\ (task'[t].pc = "find" /\ task[t].pc # "find") =>
               task[t].pc = "download"
         /\ (task[t].pc = "find" /\ task'[t] # task[t]) =>
               /\ task'[t].pc \in { "send", "save", "done" }
               /\ task'[t].pc = "done" <=> task'[t].logged = "database"
               /\ task'[t].pc = "send" <=> IsSome(task'[t].result)
               /\ task'[t].pc = "done" =>
                    task'[t].sent = None /\ ~task'[t].saved
               /\ corpus' = corpus
         /\ (task[t].pc = "send" /\ task'[t] # task[t]) =>
               /\ task'[t].pc = "done"
               /\ ~task'[t].saved
               /\ corpus' = corpus
               /\ task'[t].ret = "Ok" <=> IsSome(task'[t].sent)
         /\ (task[t].pc = "save" /\ task'[t] # task[t]) =>
               /\ task'[t].pc = "done"
               /\ task'[t].sent = None
               /\ task'[t].ret = "Ok"
               /\ task'[t].saved <=> task'[t].logged = "none"
         /\ (task[t].pc = "done" /\ task'[t] # task[t]) =>
               task'[t].pc = "received" /\ corpus' = corpus
         /\ task'[t].pc = "done" =>
               ~(IsSome(task'[t].sent) /\ task'[t].saved)
    ]_vars

\* A handler in automatic mode has returned after the reply to a near
\* duplicate, 5 bits away, and has saved nothing.
C15_Witness ==
    \E t \in Tasks :
        /\ task[t].pc = "done"
        /\ ~task[t].manual
        /\ task[t].ret = "Ok"
        /\ ~task[t].saved
        /\ IsSome(task[t].sent)
        /\ Unwrap(task[t].sent).kind = "duplicate"
        /\ Unwrap(task[t].sent).distance = 5

====
